---- MODULE Spec2Model ----
(***************************************************************************)
(* Boundary-tag dynamic memory manager of lab-3-memory (memmgr.c).         *)
(*                                                                         *)
(* Addresses are byte addresses (integers); the heap is a sparse map from  *)
(* word addresses to 8-byte words.  A word that was never written reads as *)
(* the value `uninit`, which is chosen when the data segment is created.   *)
(* Every action is one call of the public interface, executed to its end:  *)
(* a return, PANIC (exit), a failed assert (abort), a fault on a word      *)
(* outside the data segment (segv), or a scan loop that never leaves its   *)
(* current block (hang).                                                   *)
(***************************************************************************)
EXTENDS Integers, Sequences, FiniteSets, TLC

VARIABLES
  mm_initialized,   \* memmgr.c:68
  get_free_block,   \* memmgr.c:67   "none" | "ff" | "nf" | "bf"
  ds_heap_start,    \* memmgr.c:62
  ds_heap_brk,      \* memmgr.c:63
  heap_start,       \* memmgr.c:64
  heap_end,         \* memmgr.c:65
  mm_loglevel,      \* memmgr.c:69
  nf_ptr,           \* memmgr.c:70
  mem,              \* the words written so far: address -> word
  uninit,           \* what a never-written word reads as
  prov,             \* the data segment (dataseg module): start, brk, max, page, ret
  live,             \* pointers returned and not yet released -> bytes requested
  released,         \* pointers released and not returned again since
  pc,               \* "run" | "panic" | "abort" | "hang" | "segv"
  last,             \* the call that produced this state
  nops              \* number of calls made so far

vars == << mm_initialized, get_free_block, ds_heap_start, ds_heap_brk, heap_start,
           heap_end, mm_loglevel, nf_ptr, mem, uninit, prov, live, released, pc, last,
           nops >>

----------------------------------------------------------------------------
(* Bounds of the model *)

MaxOps == 4            \* calls per run, mm_init included
SIZE_BITS == 16        \* modelled width of size_t (the program's is 64)
DsPages == 3           \* capacity of the data segment, in pages
MaxScnOps == 6         \* calls per run of the second driver (SpecScn)
MaxBfOps == 7          \* calls per run of the best-fit driver (SpecBf)
MaxNfOps == 6          \* calls per run of the next-fit driver (SpecNf)
MaxAdjOps == 2         \* calls per run of the request-size driver (SpecAdj)
MaxChkOps == 6         \* calls per run of the heap-check driver (SpecChk)
MaxCurOps == 7         \* calls per run of the cursor driver (SpecCur)

----------------------------------------------------------------------------
(* Macro definitions, memmgr.c:75-114 *)

NULL == 0
TYPE_SIZE == 8
ALLOC == 1
FREE == 0
STATUS_MASK == 7
CHUNKSIZE == 4096
BS == 32
PageSize == 4096

MAX(a, b) == IF a > b THEN a ELSE b

RECURSIVE Pow2(_)
Pow2(n) == IF n = 0 THEN 1 ELSE 2 * Pow2(n - 1)

\* size_t arithmetic is modulo 2^SIZE_BITS
SizeT(x) == x % Pow2(SIZE_BITS)
SIZE_MAX == Pow2(SIZE_BITS) - 1

RECURSIVE BitOr(_, _)
BitOr(a, b) ==
  IF a = 0 THEN b
  ELSE IF b = 0 THEN a
  ELSE MAX(a % 2, b % 2) + 2 * BitOr(a \div 2, b \div 2)

PACK(size, status) == BitOr(size, status)
SIZE(v) == v - (v % (STATUS_MASK + 1))
STATUS(v) == v % (STATUS_MASK + 1)

GET(m, p) == IF p \in DOMAIN m THEN m[p] ELSE uninit
GET_SIZE(m, p) == SIZE(GET(m, p))
GET_STATUS(m, p) == STATUS(GET(m, p))
PUT(m, p, val) == [q \in DOMAIN m \cup {p} |-> IF q = p THEN val ELSE m[q]]

\* Pointer arithmetic: p + n on a pointer whose pointee has w bytes.  The macros
\* are applied to void* (w = 1, the GNU byte arithmetic) and, in mm_free, to
\* TYPE* (w = sizeof(TYPE)).
VOIDP == 1
TYPEP == TYPE_SIZE
PtrAdd(p, n, w) == p + n * w

PREV_PTR(p, w) == PtrAdd(p, 0 - TYPE_SIZE, w)
NEXT_PTR(p, w) == PtrAdd(p, TYPE_SIZE, w)
HDRP(bp, w) == PREV_PTR(bp, w)
FTRP(m, bp, w) == PREV_PTR(PtrAdd(HDRP(bp, w), GET_SIZE(m, HDRP(bp, w)), w), w)
NEXT_BLKP(m, p, w) == PtrAdd(p, GET_SIZE(m, HDRP(p, w)), w)
PREV_BLKP(m, p, w) == PtrAdd(p, 0 - GET_SIZE(m, PREV_PTR(HDRP(p, w), w)), w)

HEAP_SIZE == heap_end - heap_start

----------------------------------------------------------------------------
(* The data segment (dataseg module): the region provider of the heap.     *)

FAILED == -1                                      \* (void*)-1

RoundUp(n, unit) == ((n + unit - 1) \div unit) * unit

\* the amounts by which a request of incr bytes may move the break
DsExtents(incr) == {incr, RoundUp(incr, PageSize)}

\* ds_sbrk(incr) moving the break by ext >= incr: the result of the call and
\* the new break
ds_sbrk(p, incr, ext) ==
  IF incr = 0 THEN [ret |-> p.brk, brk |-> p.brk]
  ELSE IF p.brk + ext > p.max THEN [ret |-> FAILED, brk |-> p.brk]
  ELSE [ret |-> IF p.ret = "old" THEN p.brk ELSE p.brk + ext, brk |-> p.brk + ext]

ds_getpagesize(p) == p.page

\* the word at address a lies inside the data segment of provider state p
InRegion(p, a) == (p.start <= a) /\ (a + TYPE_SIZE <= p.brk)

\* how a call that touches the words acc may end: touching a word outside the
\* data segment is undefined, it goes through or it faults (SIGSEGV); an address
\* below 0 is in no address space and always faults
Outcomes(p, acc) ==
  IF \E a \in acc : a < 0 THEN {"segv"}
  ELSE IF \A a \in acc : InRegion(p, a) THEN {"ok"}
  ELSE {"ok", "segv"}

----------------------------------------------------------------------------
(* Block allocation policies, memmgr.c:365-448 *)

\* the scan loop of first fit and next fit: the header the loop stops at, or
\* hang when the loop stands on a block of size 0 that it must skip
RECURSIVE ScanFit(_, _, _)
ScanFit(m, size, hdrp) ==
  IF (hdrp < heap_end) /\ ((size > GET_SIZE(m, hdrp)) \/ (GET_STATUS(m, hdrp) = ALLOC))
  THEN IF GET_SIZE(m, hdrp) = 0
       THEN [hang |-> TRUE, at |-> hdrp]
       ELSE ScanFit(m, size, hdrp + GET_SIZE(m, hdrp))
  ELSE [hang |-> FALSE, at |-> hdrp]

ff_get_free_block(m, size) ==
  LET r == ScanFit(m, size, heap_start) IN
  IF r.hang THEN [kind |-> "hang", bp |-> NULL, nf |-> nf_ptr]
  ELSE IF r.at < heap_end THEN [kind |-> "ptr", bp |-> NEXT_PTR(r.at, VOIDP), nf |-> nf_ptr]
  ELSE [kind |-> "null", bp |-> NULL, nf |-> nf_ptr]

\* next fit that starts again at heap_start when it finds nothing from the cursor on
nf_get_free_block_Wraps(m, size) ==
  LET from == IF nf_ptr = NULL THEN heap_start ELSE nf_ptr
      r == ScanFit(m, size, from)
      r2 == ScanFit(m, size, heap_start) IN
  IF r.hang THEN [kind |-> "hang", bp |-> NULL, nf |-> r.at]
  ELSE IF r.at < heap_end THEN [kind |-> "ptr", bp |-> NEXT_PTR(r.at, VOIDP), nf |-> r.at]
  ELSE IF r2.hang THEN [kind |-> "hang", bp |-> NULL, nf |-> r2.at]
  ELSE IF r2.at < heap_end THEN [kind |-> "ptr", bp |-> NEXT_PTR(r2.at, VOIDP), nf |-> r2.at]
  ELSE [kind |-> "null", bp |-> NULL, nf |-> NULL]

nf_get_free_block(m, size) ==
  LET from == IF nf_ptr = NULL THEN heap_start ELSE nf_ptr
      r == ScanFit(m, size, from) IN
  IF r.hang THEN [kind |-> "hang", bp |-> NULL, nf |-> r.at]
  ELSE IF r.at < heap_end THEN [kind |-> "ptr", bp |-> NEXT_PTR(r.at, VOIDP), nf |-> r.at]
  ELSE [kind |-> "null", bp |-> NULL, nf |-> NULL]

\* the scan loop of best fit taking every fitting FREE block it meets
RECURSIVE BfScan_AnyFit(_, _, _, _, _)
BfScan_AnyFit(m, size, hdrp, bf_ptr, minSize) ==
  IF hdrp < heap_end
  THEN LET better == (size <= GET_SIZE(m, hdrp)) /\ (GET_STATUS(m, hdrp) = FREE)
           bf2  == IF better THEN hdrp ELSE bf_ptr IN
       IF GET_SIZE(m, hdrp) = 0
       THEN [hang |-> TRUE, at |-> bf2]
       ELSE BfScan_AnyFit(m, size, hdrp + GET_SIZE(m, hdrp), bf2, minSize)
  ELSE [hang |-> FALSE, at |-> bf_ptr]

\* the scan loop of best fit
RECURSIVE BfScan(_, _, _, _, _)
BfScan(m, size, hdrp, bf_ptr, minSize) ==
  IF hdrp < heap_end
  THEN LET better == (size <= GET_SIZE(m, hdrp)) /\ (GET_STATUS(m, hdrp) = FREE)
                       /\ (GET_SIZE(m, hdrp) < minSize)
           bf2  == IF better THEN hdrp ELSE bf_ptr
           min2 == IF better THEN GET_SIZE(m, hdrp) ELSE minSize IN
       IF GET_SIZE(m, hdrp) = 0
       THEN [hang |-> TRUE, at |-> bf2]
       ELSE BfScan(m, size, hdrp + GET_SIZE(m, hdrp), bf2, min2)
  ELSE [hang |-> FALSE, at |-> bf_ptr]

bf_get_free_block(m, size) ==
  LET r == BfScan(m, size, heap_start, NULL, HEAP_SIZE) IN
  IF r.hang THEN [kind |-> "hang", bp |-> NULL, nf |-> nf_ptr]
  ELSE IF r.at # NULL THEN [kind |-> "ptr", bp |-> NEXT_PTR(r.at, VOIDP), nf |-> nf_ptr]
  ELSE [kind |-> "null", bp |-> NULL, nf |-> nf_ptr]

\* the call through the function pointer get_free_block
Locate(m, size) ==
  CASE get_free_block = "ff" -> ff_get_free_block(m, size)
    [] get_free_block = "nf" -> nf_get_free_block(m, size)
    [] OTHER                 -> bf_get_free_block(m, size)

----------------------------------------------------------------------------
(* Inputs of the model *)

DsStarts == {4096, 4104}                  \* start of the data segment
UninitWords == {0, 1}                     \* content of never-written words
Policies == {"ff", "nf", "bf", "invalid"} \* AllocationPolicy values passed to mm_init
Sizes == {0, 16, 40, 4000, SIZE_MAX}      \* byte counts passed to mm_malloc
\* (nmemb, size) passed to mm_calloc; the product of the last pair is 2^SIZE_BITS + 16
CallocArgs == {<<2, 8>>, <<3, 4>>, <<0, 8>>, <<Pow2(SIZE_BITS - 4) + 1, 16>>}
UserWords == {33}                         \* values the caller stores in its payload
UserIndex == {0, 3}                         \* payload word indices the caller stores to
LogLevels == {2}                          \* levels passed to mm_setloglevel
FfRequests == {32, 64, 4032, 4096}        \* sizes the first-fit locator is asked for

----------------------------------------------------------------------------
(* Outcomes of the calls *)

Call(op, arg, ret, path) == [op |-> op, arg |-> arg, ret |-> ret, path |-> path]

\* the call ends the process: PANIC (exit), assert (abort), or never returns
Stops(how, op, arg) ==
  /\ pc' = how
  /\ last' = Call(op, arg, NULL, how)
  /\ nops' = nops + 1

Remove(f, x) == [y \in DOMAIN f \ {x} |-> f[y]]
Record(f, x, v) == [y \in DOMAIN f \cup {x} |-> IF y = x THEN v ELSE f[y]]

----------------------------------------------------------------------------
(* mm_init, memmgr.c:179-239 *)

\* the initial sanity checks on the data segment, memmgr.c:206-208
SanityFails(p) == (p.start = NULL) \/ (p.start # p.brk) \/ (ds_getpagesize(p) = 0)

mm_init(ap) ==
  /\ pc = "run"
  /\ UNCHANGED mm_loglevel
  /\ IF ap \notin {"ff", "nf", "bf"}
     THEN /\ Stops("panic", "init", ap)
          /\ UNCHANGED << mm_initialized, get_free_block, ds_heap_start, ds_heap_brk,
                          heap_start, heap_end, nf_ptr, mem, uninit, prov, live, released >>
     ELSE IF SanityFails(prov)
     THEN /\ Stops("panic", "init", ap)
          /\ get_free_block' = ap
          /\ ds_heap_start' = prov.start
          /\ ds_heap_brk' = prov.brk
          /\ UNCHANGED << mm_initialized, heap_start, heap_end, nf_ptr, mem, uninit,
                          prov, live, released >>
     ELSE LET grown == ds_sbrk(prov, CHUNKSIZE, CHUNKSIZE)
              p1    == [prov EXCEPT !.brk = grown.brk]
              brk   == ds_sbrk(p1, 0, 0).ret
              hs    == ((prov.start + BS) \div BS) * BS
              he    == ((brk - 1) \div BS) * BS
              m1    == PUT(mem, PREV_PTR(hs, VOIDP), PACK(0, ALLOC))
              m2    == PUT(m1, he, PACK(0, ALLOC))
              m3    == PUT(m2, hs, PACK(SizeT(he - hs), FREE))
              m4    == PUT(m3, PREV_PTR(he, VOIDP), PACK(SizeT(he - hs), FREE))
              acc   == {PREV_PTR(hs, VOIDP), he, hs, PREV_PTR(he, VOIDP)}
          IN /\ get_free_block' = ap
             /\ ds_heap_start' = prov.start
             /\ prov' = p1
             /\ IF brk = FAILED
                THEN /\ Stops("panic", "init", ap)
                     /\ ds_heap_brk' = brk
                     /\ UNCHANGED << mm_initialized, heap_start, heap_end, mem >>
                ELSE /\ ds_heap_brk' = brk
                     /\ heap_start' = hs
                     /\ heap_end' = he
                     /\ mem' = m4
                     /\ \E how \in Outcomes(p1, acc) :
                          /\ mm_initialized' = IF how = "ok" THEN 1 ELSE mm_initialized
                          /\ pc' = IF how = "ok" THEN "run" ELSE how
                          /\ last' = Call("init", ap, NULL, how)
                     /\ nops' = nops + 1
             /\ UNCHANGED << nf_ptr, uninit, live, released >>

----------------------------------------------------------------------------
(* mm_malloc, memmgr.c:242-289 *)

\* the adjusted block size without the room for header and footer
Adjust_NoOverhead(size) == SizeT((SizeT(size + BS - 1) \div BS) * BS)

\* the adjusted block size rounded down instead of up
Adjust_RoundDown(size) == SizeT((SizeT(size + 2 * TYPE_SIZE - 1) \div BS) * BS)

\* the adjusted block size, memmgr.c:255
Adjust(size) == SizeT((SizeT(size + 2 * TYPE_SIZE - 1) \div BS + 1) * BS)

\* the split that writes the tags of the allocated part before those of the remainder
Place_AllocFirst(m, bp, asize) ==
  IF GET_SIZE(m, HDRP(bp, VOIDP)) > asize
  THEN LET rest == GET_SIZE(m, HDRP(bp, VOIDP)) - asize
           m1 == PUT(m, HDRP(bp, VOIDP), PACK(asize, ALLOC))
           m2 == PUT(m1, FTRP(m1, bp, VOIDP), PACK(asize, ALLOC))
           m3 == PUT(m2, HDRP(bp, VOIDP) + asize, PACK(rest, FREE))
       IN  PUT(m3, FTRP(m3, bp, VOIDP), PACK(rest, FREE))
  ELSE LET m1 == PUT(m, HDRP(bp, VOIDP), PACK(asize, ALLOC))
       IN  PUT(m1, FTRP(m1, bp, VOIDP), PACK(asize, ALLOC))

\* a free block was found at bp: split it or take it whole, memmgr.c:260-273
Place(m, bp, asize) ==
  IF GET_SIZE(m, HDRP(bp, VOIDP)) > asize
  THEN LET m1 == PUT(m, HDRP(bp, VOIDP) + asize, PACK(GET_SIZE(m, HDRP(bp, VOIDP)) - asize, FREE))
           m2 == PUT(m1, FTRP(m1, bp, VOIDP), PACK(GET_SIZE(m1, HDRP(bp, VOIDP)) - asize, FREE))
           m3 == PUT(m2, HDRP(bp, VOIDP), PACK(asize, ALLOC))
       IN  PUT(m3, FTRP(m3, bp, VOIDP), PACK(asize, ALLOC))
  ELSE LET m1 == PUT(m, HDRP(bp, VOIDP), PACK(asize, ALLOC))
       IN  PUT(m1, FTRP(m1, bp, VOIDP), PACK(asize, ALLOC))

\* the words that Place reads and writes
PlaceAcc(m, bp, asize) ==
  IF GET_SIZE(m, HDRP(bp, VOIDP)) > asize
  THEN LET m1 == PUT(m, HDRP(bp, VOIDP) + asize, PACK(GET_SIZE(m, HDRP(bp, VOIDP)) - asize, FREE))
           m2 == PUT(m1, FTRP(m1, bp, VOIDP), PACK(GET_SIZE(m1, HDRP(bp, VOIDP)) - asize, FREE))
           m3 == PUT(m2, HDRP(bp, VOIDP), PACK(asize, ALLOC))
       IN  {HDRP(bp, VOIDP), HDRP(bp, VOIDP) + asize, FTRP(m1, bp, VOIDP), FTRP(m3, bp, VOIDP)}
  ELSE LET m1 == PUT(m, HDRP(bp, VOIDP), PACK(asize, ALLOC))
       IN  {HDRP(bp, VOIDP), FTRP(m1, bp, VOIDP)}

\* the growth path taking the new heap_end from the start of the data segment
Extend_EndFromStart(m, asize, ext) ==
  LET xsize == MAX(asize, CHUNKSIZE)
      grown == ds_sbrk(prov, xsize, ext)
      p1    == [prov EXCEPT !.brk = grown.brk]
      bp    == grown.ret
      brk   == ds_sbrk(p1, 0, 0).ret
      he    == ((prov.start - 1) \div BS) * BS
      m1    == PUT(m, he, PACK(0, ALLOC))
      m2    == PUT(m1, HDRP(bp, VOIDP), PACK(xsize, ALLOC))
      m3    == PUT(m2, FTRP(m2, bp, VOIDP), PACK(xsize, ALLOC))
  IN  IF brk = FAILED
      THEN [kind |-> "panic", bp |-> NULL, mem |-> m, he |-> heap_end, brk |-> brk, prov |-> p1,
            acc |-> {}]
      ELSE [kind |-> "grow", bp |-> bp, mem |-> m3, he |-> he, brk |-> brk, prov |-> p1,
            acc |-> {he, HDRP(bp, VOIDP), FTRP(m2, bp, VOIDP)}]

\* no free block was found: extend the heap and allocate, memmgr.c:275-288
Extend(m, asize, ext) ==
  LET xsize == MAX(asize, CHUNKSIZE)
      grown == ds_sbrk(prov, xsize, ext)
      p1    == [prov EXCEPT !.brk = grown.brk]
      bp    == grown.ret
      brk   == ds_sbrk(p1, 0, 0).ret
      he    == ((brk - 1) \div BS) * BS
      m1    == PUT(m, he, PACK(0, ALLOC))
      m2    == PUT(m1, HDRP(bp, VOIDP), PACK(xsize, ALLOC))
      m3    == PUT(m2, FTRP(m2, bp, VOIDP), PACK(xsize, ALLOC))
  IN  IF brk = FAILED
      THEN [kind |-> "panic", bp |-> NULL, mem |-> m, he |-> heap_end, brk |-> brk, prov |-> p1,
            acc |-> {}]
      ELSE [kind |-> "grow", bp |-> bp, mem |-> m3, he |-> he, brk |-> brk, prov |-> p1,
            acc |-> {he, HDRP(bp, VOIDP), FTRP(m2, bp, VOIDP)}]

\* mm_malloc without the test for a request of 0 bytes
Malloc_NoZeroTest(size, ext) ==
  LET asize == Adjust(size)
      loc   == Locate(mem, asize) IN
  IF loc.kind = "ptr"
  THEN [kind |-> "found", bp |-> loc.bp, mem |-> Place(mem, loc.bp, asize),
        he |-> heap_end, brk |-> ds_heap_brk, prov |-> prov, nf |-> loc.nf,
        asize |-> asize, acc |-> PlaceAcc(mem, loc.bp, asize)]
  ELSE [kind |-> "hang", bp |-> NULL, mem |-> mem, he |-> heap_end, brk |-> ds_heap_brk,
        prov |-> prov, nf |-> loc.nf, asize |-> asize, acc |-> {}]

\* the body of mm_malloc after the assert, for a provider that moves the break by
\* ext when asked to grow
Malloc(size, ext) ==
  IF size = 0
  THEN [kind |-> "zero", bp |-> NULL, mem |-> mem, he |-> heap_end, brk |-> ds_heap_brk,
        prov |-> prov, nf |-> nf_ptr, asize |-> 0, acc |-> {}]
  ELSE LET asize == Adjust(size)
           loc   == Locate(mem, asize) IN
       IF loc.kind = "hang"
       THEN [kind |-> "hang", bp |-> NULL, mem |-> mem, he |-> heap_end, brk |-> ds_heap_brk,
             prov |-> prov, nf |-> loc.nf, asize |-> asize, acc |-> {}]
       ELSE IF loc.kind = "ptr"
       THEN [kind |-> "found", bp |-> loc.bp, mem |-> Place(mem, loc.bp, asize),
             he |-> heap_end, brk |-> ds_heap_brk, prov |-> prov, nf |-> loc.nf,
             asize |-> asize, acc |-> PlaceAcc(mem, loc.bp, asize)]
       ELSE LET x == Extend(mem, asize, ext) IN
            [kind |-> x.kind, bp |-> x.bp, mem |-> x.mem, he |-> x.he, brk |-> x.brk,
             prov |-> x.prov, nf |-> loc.nf, asize |-> asize, acc |-> x.acc]

\* the call faulted on the way
Faulted(r) == [r EXCEPT !.kind = "segv", !.bp = NULL]

\* the effect of a finished mm_malloc(size) or of the mm_malloc inside mm_calloc
Allocated(op, arg, size, r, m) ==
  /\ mem' = m
  /\ heap_end' = r.he
  /\ ds_heap_brk' = r.brk
  /\ prov' = r.prov
  /\ nf_ptr' = r.nf
  /\ pc' = IF r.kind \in {"zero", "found", "grow"} THEN "run" ELSE r.kind
  /\ last' = Call(op, arg, r.bp, r.kind)
  /\ nops' = nops + 1
  /\ live' = IF r.bp # NULL THEN Record(live, r.bp, size) ELSE live
  /\ released' = released \ {r.bp}
  /\ UNCHANGED << mm_initialized, get_free_block, ds_heap_start, heap_start, uninit >>

\* a call before mm_init that returns NULL instead of failing its assert
NotInitialized_Returns(op, arg) ==
  /\ mm_initialized = 0
  /\ pc' = "run"
  /\ last' = Call(op, arg, NULL, "ok")
  /\ nops' = nops + 1
  /\ UNCHANGED << mm_initialized, get_free_block, ds_heap_start, ds_heap_brk, heap_start,
                  heap_end, nf_ptr, mem, uninit, prov, live, released >>

\* assert(mm_initialized) fails, memmgr.c:245, 295, 324
NotInitialized(op, arg) ==
  /\ mm_initialized = 0
  /\ Stops("abort", op, arg)
  /\ UNCHANGED << mm_initialized, get_free_block, ds_heap_start, ds_heap_brk, heap_start,
                  heap_end, nf_ptr, mem, uninit, prov, live, released >>

mm_malloc(size) ==
  /\ pc = "run"
  /\ UNCHANGED mm_loglevel
  /\ \/ NotInitialized("malloc", size)
     \/ /\ mm_initialized = 1
        /\ \E ext \in DsExtents(MAX(Adjust(size), CHUNKSIZE)) :
             \E r \in {Malloc(size, ext)} : \E how \in Outcomes(r.prov, r.acc) :
               IF how = "segv"
               THEN Allocated("malloc", size, size, Faulted(r), r.mem)
               ELSE Allocated("malloc", size, size, r, r.mem)

----------------------------------------------------------------------------
(* mm_calloc, memmgr.c:291-305 *)

\* a word with its r low-order bytes cleared (little endian); the words of the
\* model are below 2^31
ZeroLow(v, r) == IF r >= 4 THEN 0 ELSE (v \div Pow2(8 * r)) * Pow2(8 * r)

\* memset(payload, 0, n)
RECURSIVE Memset0(_, _, _)
Memset0(m, p, n) ==
  IF n = 0 THEN m
  ELSE IF n < TYPE_SIZE THEN PUT(m, p, ZeroLow(GET(m, p), n))
  ELSE Memset0(PUT(m, p, 0), p + TYPE_SIZE, n - TYPE_SIZE)

\* the words that hold the n bytes at p
Bytes(p, n) == {p + TYPE_SIZE * i : i \in 0..((n + TYPE_SIZE - 1) \div TYPE_SIZE - 1)}

mm_calloc(nmemb, size) ==
  /\ pc = "run"
  /\ UNCHANGED mm_loglevel
  /\ \/ NotInitialized("calloc", <<nmemb, size>>)
     \/ /\ mm_initialized = 1
        /\ LET n == SizeT(nmemb * size) IN
           \E ext \in DsExtents(MAX(Adjust(n), CHUNKSIZE)) :
             \E r \in {Malloc(n, ext)} :
             \E how \in Outcomes(r.prov, r.acc \cup (IF r.bp # NULL THEN Bytes(r.bp, n) ELSE {})) :
               IF how = "segv"
               THEN Allocated("calloc", <<nmemb, size>>, n, Faulted(r), r.mem)
               ELSE Allocated("calloc", <<nmemb, size>>, n, r,
                              IF r.bp # NULL THEN Memset0(r.mem, r.bp, n) ELSE r.mem)

----------------------------------------------------------------------------
(* mm_free, memmgr.c:320-363 *)

Free(m, ptr) ==
  IF GET_STATUS(m, HDRP(ptr, VOIDP)) = 0
  THEN [kind |-> "panic", mem |-> m, case |-> 0, acc |-> {HDRP(ptr, VOIDP)}]
  ELSE LET size == GET_SIZE(m, HDRP(ptr, VOIDP))
           m1 == PUT(m, HDRP(ptr, VOIDP), PACK(size, FREE))
           m2 == PUT(m1, FTRP(m1, ptr, VOIDP), PACK(size, FREE))
           \* prev_bp, next_bp, prev_hdr, next_hdr are TYPE*, ptr is void*
           prev_bp == PREV_BLKP(m2, ptr, VOIDP)
           next_bp == NEXT_BLKP(m2, ptr, VOIDP)
           prev_hdr == HDRP(prev_bp, TYPEP)
           next_hdr == HDRP(next_bp, TYPEP)
           prev_alloc == GET_STATUS(m2, prev_hdr)
           next_alloc == GET_STATUS(m2, next_hdr)
           \* the words touched before the four cases
           acc == {HDRP(ptr, VOIDP), FTRP(m1, ptr, VOIDP), PREV_PTR(HDRP(ptr, VOIDP), VOIDP),
                   prev_hdr, next_hdr}
       IN  IF prev_alloc # 0 /\ next_alloc # 0
           THEN [kind |-> "ok", mem |-> m2, case |-> 1, acc |-> acc]
           ELSE IF prev_alloc # 0 /\ next_alloc = 0
           THEN LET s2 == size + GET_SIZE(m2, next_hdr)
                    m3 == PUT(m2, HDRP(ptr, VOIDP), PACK(s2, FREE))
                IN  [kind |-> "ok", case |-> 2, acc |-> acc \cup {FTRP(m3, next_bp, TYPEP)},
                     mem |-> PUT(m3, FTRP(m3, next_bp, TYPEP), PACK(s2, FREE))]
           ELSE IF prev_alloc = 0 /\ next_alloc # 0
           THEN LET s2 == size + GET_SIZE(m2, prev_hdr)
                    m3 == PUT(m2, prev_hdr, PACK(s2, FREE))
                IN  [kind |-> "ok", case |-> 3, acc |-> acc \cup {FTRP(m3, ptr, VOIDP)},
                     mem |-> PUT(m3, FTRP(m3, ptr, VOIDP), PACK(s2, FREE))]
           ELSE LET s2 == size + (GET_SIZE(m2, prev_hdr) + GET_SIZE(m2, next_hdr))
                    m3 == PUT(m2, prev_hdr, PACK(s2, FREE))
                IN  [kind |-> "ok", case |-> 4, acc |-> acc \cup {FTRP(m3, next_bp, TYPEP)},
                     mem |-> PUT(m3, FTRP(m3, next_bp, TYPEP), PACK(s2, FREE))]

mm_free(ptr) ==
  /\ pc = "run"
  /\ UNCHANGED mm_loglevel
  /\ \/ NotInitialized("free", ptr)
     \/ /\ mm_initialized = 1
        /\ \E r \in {Free(mem, ptr)} : \E how \in Outcomes(prov, r.acc) :
           \E kind \in {IF how = "segv" THEN "segv" ELSE r.kind} :
           /\ mem' = r.mem
           /\ pc' = IF kind = "ok" THEN "run" ELSE kind
           /\ last' = [Call("free", ptr, NULL, kind) EXCEPT !.ret = r.case]
           /\ nops' = nops + 1
           /\ live' = IF kind = "ok" THEN Remove(live, ptr) ELSE live
           /\ released' = IF kind = "ok" THEN released \cup {ptr} ELSE released
           /\ UNCHANGED << mm_initialized, get_free_block, ds_heap_start, ds_heap_brk,
                           heap_start, heap_end, nf_ptr, uninit, prov >>

----------------------------------------------------------------------------
(* mm_check, memmgr.c:458-518 *)

\* the traversal that does not count the mismatches
RECURSIVE CheckWalk_IgnoresMismatch(_, _, _, _)
CheckWalk_IgnoresMismatch(m, p, errors, seen) ==
  IF p < heap_end
  THEN LET size == SIZE(GET(m, p))
       IN  IF size = 0
           THEN [p |-> p + size, errors |-> errors, blocks |-> Append(seen, p)]
           ELSE CheckWalk_IgnoresMismatch(m, p + size, errors, Append(seen, p))
  ELSE [p |-> p, errors |-> errors, blocks |-> seen]

\* the traversal of mm_check from header p with the mismatches counted so far:
\* the headers visited, the mismatches, and the address the walk ends at
RECURSIVE CheckWalk(_, _, _, _)
CheckWalk(m, p, errors, seen) ==
  IF p < heap_end
  THEN LET hdr == GET(m, p)
           size == SIZE(hdr)
           fp == p + size - TYPE_SIZE
           ftr == GET(m, fp)
           e2 == IF (size # SIZE(ftr)) \/ (STATUS(hdr) # STATUS(ftr))
                 THEN errors + 1 ELSE errors
       IN  IF size = 0
           THEN [p |-> p + size, errors |-> e2, blocks |-> Append(seen, p)]
           ELSE CheckWalk(m, p + size, e2, Append(seen, p))
  ELSE [p |-> p, errors |-> errors, blocks |-> seen]

Check(m) == CheckWalk(m, heap_start, 0, << >>)

\* "Block structure coherent.", memmgr.c:516
Coherent(m) == LET c == Check(m) IN (c.p = heap_end) /\ (c.errors = 0)

\* the words that mm_check reads: the two sentinels, and the header and the
\* footer of every block of the walk c
CheckAcc(m, c) ==
  {PREV_PTR(heap_start, VOIDP), heap_end}
    \cup {c.blocks[i] : i \in DOMAIN c.blocks}
    \cup {c.blocks[i] + GET_SIZE(m, c.blocks[i]) - TYPE_SIZE : i \in DOMAIN c.blocks}

mm_check ==
  /\ pc = "run"
  /\ UNCHANGED mm_loglevel
  /\ IF mm_initialized = 0
     THEN Stops("abort", "check", NULL)
     ELSE \E c \in {Check(mem)} : \E how \in Outcomes(prov, CheckAcc(mem, c)) :
          /\ pc' = IF how = "ok" THEN "run" ELSE how
          /\ last' = Call("check", NULL, c.errors,
                          IF how = "segv" THEN how
                          ELSE IF (c.p = heap_end) /\ (c.errors = 0) THEN "coherent"
                          ELSE "incoherent")
          /\ nops' = nops + 1
  /\ UNCHANGED << mm_initialized, get_free_block, ds_heap_start, ds_heap_brk, heap_start,
                  heap_end, nf_ptr, mem, uninit, prov, live, released >>

----------------------------------------------------------------------------
(* mm_setloglevel, memmgr.c:452-455 *)

\* mm_setloglevel that also forgets the next-fit cursor
mm_setloglevel_ResetsCursor(level) ==
  /\ pc = "run"
  /\ mm_loglevel' = level
  /\ nf_ptr' = NULL
  /\ pc' = "run"
  /\ last' = Call("setloglevel", level, NULL, "ok")
  /\ nops' = nops + 1
  /\ UNCHANGED << mm_initialized, get_free_block, ds_heap_start, ds_heap_brk, heap_start,
                  heap_end, mem, uninit, prov, live, released >>

mm_setloglevel(level) ==
  /\ pc = "run"
  /\ mm_loglevel' = level
  /\ pc' = "run"
  /\ last' = Call("setloglevel", level, NULL, "ok")
  /\ nops' = nops + 1
  /\ UNCHANGED << mm_initialized, get_free_block, ds_heap_start, ds_heap_brk, heap_start,
                  heap_end, nf_ptr, mem, uninit, prov, live, released >>

----------------------------------------------------------------------------
(* The caller stores a word into the payload it was given. *)

UserStore(ptr, k, w) ==
  /\ pc = "run"
  /\ UNCHANGED mm_loglevel
  /\ ptr \in DOMAIN live
  /\ TYPE_SIZE * (k + 1) <= live[ptr]
  /\ GET(mem, ptr + TYPE_SIZE * k) # w
  /\ \E how \in Outcomes(prov, {ptr + TYPE_SIZE * k}) :
       /\ pc' = IF how = "ok" THEN "run" ELSE how
       /\ last' = Call("store", ptr, k, how)
  /\ mem' = PUT(mem, ptr + TYPE_SIZE * k, w)
  /\ UNCHANGED << mm_initialized, get_free_block, ds_heap_start, ds_heap_brk, heap_start,
                  heap_end, nf_ptr, uninit, prov, live, released, nops >>

----------------------------------------------------------------------------
(* The program: a driver that calls the interface in any order. *)

\* the data segment before its first use by the memory manager
DataSeg(s, brk, pages, page, r) ==
  [start |-> s, brk |-> brk, max |-> s + pages * PageSize, page |-> page, ret |-> r]

\* the initial values of the globals, memmgr.c:62-70
Globals ==
  /\ mm_initialized = 0
  /\ get_free_block = "none"
  /\ ds_heap_start = NULL
  /\ ds_heap_brk = NULL
  /\ heap_start = NULL
  /\ heap_end = NULL
  /\ mm_loglevel = 0
  /\ nf_ptr = NULL
  /\ mem = << >>
  /\ uninit \in UninitWords
  /\ live = << >>
  /\ released = {}
  /\ pc = "run"
  /\ last = Call("none", NULL, NULL, "ok")
  /\ nops = 0

\* the pointers the caller passes to mm_free: those it was given, or NULL when it
\* was given none
FreeArgs == IF DOMAIN live \cup released = {} THEN {NULL} ELSE DOMAIN live \cup released

Init ==
  /\ Globals
  /\ \E s \in DsStarts, r \in {"old", "new"} : prov = DataSeg(s, s, DsPages, PageSize, r)

Next ==
  \/ \E ap \in Policies : nops < MaxOps /\ mm_init(ap)
  \/ \E size \in Sizes : nops < MaxOps /\ mm_malloc(size)
  \/ \E a \in CallocArgs : nops < MaxOps /\ mm_calloc(a[1], a[2])
  \/ \E ptr \in FreeArgs : nops < MaxOps /\ mm_free(ptr)
  \/ nops < MaxOps /\ mm_check
  \/ \E level \in LogLevels : nops < MaxOps /\ mm_setloglevel(level)
  \/ \E ptr \in DOMAIN live, k \in UserIndex, w \in UserWords : UserStore(ptr, k, w)

Spec == Init /\ [][Next]_vars

----------------------------------------------------------------------------
(* The program under a driver with fewer request sizes and no mm_calloc or *)
(* mm_check, on a zero-filled, page-aligned data segment whose ds_sbrk     *)
(* returns the old break, for longer runs.                                 *)

ScnSizes == {16, 40, SIZE_MAX}

InitScn ==
  /\ Init
  /\ uninit = 0
  /\ prov.start = 4096
  /\ prov.ret = "old"

NextScn ==
  \/ \E ap \in {"ff", "nf", "bf"} : nops < MaxScnOps /\ mm_init(ap)
  \/ \E size \in ScnSizes : nops < MaxScnOps /\ mm_malloc(size)
  \/ \E ptr \in DOMAIN live \cup released : nops < MaxScnOps /\ mm_free(ptr)
  \/ \E ptr \in DOMAIN live, k \in UserIndex, w \in UserWords : UserStore(ptr, k, w)

SpecScn == InitScn /\ [][NextScn]_vars

----------------------------------------------------------------------------
(* The program under a driver that selects best fit, on a zero-filled data *)
(* segment whose ds_sbrk returns the old break.  Best fit returns no block *)
(* of a fresh heap, so every run starts with a growth.                     *)

BfSizes == {16, 40, 72}
BfRequests == {32, 50, 64, 96}     \* sizes the best-fit locator is asked for

InitBf ==
  /\ Init
  /\ uninit = 0
  /\ prov.ret = "old"

NextBf ==
  \/ nops < MaxBfOps /\ mm_init("bf")
  \/ \E size \in BfSizes : nops < MaxBfOps /\ mm_malloc(size)
  \/ \E ptr \in DOMAIN live \cup released : nops < MaxBfOps /\ mm_free(ptr)

SpecBf == InitBf /\ [][NextBf]_vars

----------------------------------------------------------------------------
(* The program under a driver that selects next fit, on a zero-filled data *)
(* segment whose ds_sbrk returns the old break, with requests that fill    *)
(* the heap.                                                               *)

NfSizes == {16, 4000}

InitNf ==
  /\ Init
  /\ uninit = 0
  /\ prov.ret = "old"

NextNf ==
  \/ nops < MaxNfOps /\ mm_init("nf")
  \/ \E size \in NfSizes : nops < MaxNfOps /\ mm_malloc(size)
  \/ \E ptr \in DOMAIN live \cup released : nops < MaxNfOps /\ mm_free(ptr)

SpecNf == InitNf /\ [][NextNf]_vars

----------------------------------------------------------------------------
(* The program under a driver that asks for blocks of many sizes on a     *)
(* zero-filled data segment.                                               *)

\* the largest request whose adjusted size is a value of size_t
AdjMax == SIZE_MAX - (BS + 2 * TYPE_SIZE - 1)

AdjSizes == (1 .. 66) \cup {4000, 4016, 4017, AdjMax}

InitAdj ==
  /\ Init
  /\ uninit = 0

NextAdj ==
  \/ \E ap \in Policies : nops < MaxAdjOps /\ mm_init(ap)
  \/ \E size \in AdjSizes : nops < MaxAdjOps /\ mm_malloc(size)

SpecAdj == InitAdj /\ [][NextAdj]_vars

----------------------------------------------------------------------------
(* The program under a driver that selects first fit and calls mm_check,   *)
(* on a zero-filled data segment whose ds_sbrk returns the old break; the   *)
(* caller stores into the payloads it asked for.                           *)

ChkSizes == {16, SIZE_MAX}

InitChk ==
  /\ Init
  /\ uninit = 0
  /\ prov.ret = "old"

NextChk ==
  \/ nops < MaxChkOps /\ mm_init("ff")
  \/ \E size \in ChkSizes : nops < MaxChkOps /\ mm_malloc(size)
  \/ \E ptr \in DOMAIN live \cup released : nops < MaxChkOps /\ mm_free(ptr)
  \/ nops < MaxChkOps /\ mm_check
  \/ \E ptr \in DOMAIN live, k \in UserIndex, w \in UserWords : UserStore(ptr, k, w)

SpecChk == InitChk /\ [][NextChk]_vars

----------------------------------------------------------------------------
(* The program under a driver that selects next fit, asks for blocks of    *)
(* one size and stores into the first word of the payloads, on a           *)
(* zero-filled page-aligned data segment whose ds_sbrk returns the old     *)
(* break.                                                                  *)

CurSizes == {16}
CurWords == {32, 33}

InitCur ==
  /\ Init
  /\ uninit = 0
  /\ prov.start = 4096
  /\ prov.ret = "old"

NextCur ==
  \/ nops < MaxCurOps /\ mm_init("nf")
  \/ \E size \in CurSizes : nops < MaxCurOps /\ mm_malloc(size)
  \/ \E ptr \in DOMAIN live \cup released : nops < MaxCurOps /\ mm_free(ptr)
  \/ \E ptr \in DOMAIN live, w \in CurWords : UserStore(ptr, 0, w)

SpecCur == InitCur /\ [][NextCur]_vars

----------------------------------------------------------------------------
(* The program on data segments that are at or near their limits: not yet  *)
(* set up (start and break NULL), already in use (break above start), of   *)
(* page size 0, or with room for no page or for one page only.             *)

ProvStarts == {NULL, 4096}           \* start of the data segment, NULL before its set-up
ProvPages == {0, 1}                  \* capacity of the data segment, in pages
ProvUsed == {0, PageSize}            \* bytes between start and break before mm_init
ProvPageSizes == {0, PageSize}       \* what ds_getpagesize reports

InitProv ==
  /\ Globals
  /\ \E s \in ProvStarts, n \in ProvPages, u \in ProvUsed, g \in ProvPageSizes,
        r \in {"old", "new"} :
       prov = IF s = NULL THEN DataSeg(NULL, NULL, 0, g, r)
              ELSE DataSeg(s, s + u, n + u \div PageSize, g, r)

SpecProv == InitProv /\ [][Next]_vars

----------------------------------------------------------------------------
(* Properties *)

\* the allocator is initialized and the process is alive
Running == (mm_initialized = 1) /\ (pc = "run")

\* the headers of the block sequence: the walk from heap_start by header sizes
Walk == Check(mem).blocks

\* some FREE block of the block sequence has at least size bytes
FitExists(size) ==
  \E i \in 1..Len(Walk) :
    (GET_STATUS(mem, Walk[i]) = FREE) /\ (GET_SIZE(mem, Walk[i]) >= size)

\* C1 (tag symmetry): in every state reached by mm_init and any sequence of
\* mm_malloc / mm_calloc / mm_free calls, every block reached by walking from
\* heap_start by header sizes has a footer word, at header + size - 8, that
\* encodes the same size and the same status as its header.
C1_TagSymmetry ==
  Running =>
    \A i \in 1..Len(Walk) :
      LET h == Walk[i]
          f == h + GET_SIZE(mem, h) - TYPE_SIZE
      IN  (GET_SIZE(mem, f) = GET_SIZE(mem, h)) /\ (GET_STATUS(mem, f) = GET_STATUS(mem, h))

\* C2 (disjointness and coverage): in every reachable state the walk from
\* heap_start by header sizes visits blocks of positive size only and ends
\* exactly at heap_end.
C2_Coverage ==
  Running =>
    /\ \A i \in 1..Len(Walk) : GET_SIZE(mem, Walk[i]) > 0
    /\ Check(mem).p = heap_end

\* C3 (no adjacent free blocks): when mm_free has returned, no two consecutive
\* blocks of the block sequence are both FREE.
C3_NoAdjacentFree ==
  (Running /\ last.op = "free") =>
    \A i \in 1..(Len(Walk) - 1) :
      ~((GET_STATUS(mem, Walk[i]) = FREE) /\ (GET_STATUS(mem, Walk[i + 1]) = FREE))

\* C4 (double-free detection): mm_free(p) on a pointer p that was released
\* before and has not been returned by mm_malloc since ends in PANIC and
\* changes no heap word (judged on the calls that do not fault).
C4_DoubleFree ==
  [][ \A p \in released :
        (last'.op = "free" /\ last'.arg = p /\ nops' = nops + 1 /\ pc' # "segv")
          => (pc' = "panic" /\ mem' = mem) ]_vars

\* the words of the block of size bytes whose header is at h
Extent(h, size) == {h + TYPE_SIZE * i : i \in 0..((size \div TYPE_SIZE) - 1)}

\* blocks A, B, C of the same size lie one after the other, A and C are
\* ALLOCATED and live, B has been released
ABC(a, s) ==
  /\ s > 0
  /\ a \in DOMAIN live
  /\ (a + s) \in released
  /\ (a + 2 * s) \in DOMAIN live
  /\ GET(mem, HDRP(a, VOIDP)) = PACK(s, ALLOC)
  /\ GET(mem, HDRP(a + s, VOIDP)) = PACK(s, FREE)
  /\ GET(mem, HDRP(a + 2 * s, VOIDP)) = PACK(s, ALLOC)

\* C5 (coalesce on free): with equal-size blocks A, B, C allocated one after
\* the other and B released, releasing A leaves at A's address one FREE block
\* whose header and footer encode size(A) + size(B), and leaves every word of
\* C unchanged and C ALLOCATED; also when A is the first block of the heap
\* (judged on the calls that do not fault).
C5_CoalesceOnFree ==
  [][ \A a \in DOMAIN live :
        LET s == GET_SIZE(mem, HDRP(a, VOIDP)) IN
        (ABC(a, s) /\ last'.op = "free" /\ last'.arg = a /\ nops' = nops + 1 /\ pc' # "segv")
          => /\ pc' = "run"
             /\ GET(mem', HDRP(a, VOIDP)) = PACK(2 * s, FREE)
             /\ GET(mem', HDRP(a, VOIDP) + 2 * s - TYPE_SIZE) = PACK(2 * s, FREE)
             /\ \A q \in Extent(HDRP(a + 2 * s, VOIDP), s) : GET(mem', q) = GET(mem, q) ]_vars

\* C6 (growth on exhaustion): when mm_malloc(n), n > 0, is called in a state
\* whose block sequence has no FREE block of the adjusted size, the call returns
\* with a larger heap_end, the returned block is ALLOCATED, and the walk of
\* mm_check finds no header/footer mismatch and ends exactly at the new heap_end.
C6_GrowthOnExhaustion ==
  [][ ( /\ Running
        /\ nops' = nops + 1
        /\ last'.op = "malloc"
        /\ last'.arg # 0
        /\ ~FitExists(Adjust(last'.arg)) )
      => ( /\ pc' = "run"
           /\ heap_end' > heap_end
           /\ GET_STATUS(mem', HDRP(last'.ret, VOIDP)) = ALLOC
           /\ Coherent(mem)' ) ]_vars

\* C7 (size and alignment of an allocation): whenever mm_malloc(n), n > 0, has
\* returned a non-NULL pointer, the size in the header of the returned block is
\* a multiple of 32 and at least n + 16.
C7_BlockSize ==
  (Running /\ last.op = "malloc" /\ last.ret # NULL) =>
    LET s == GET_SIZE(mem, HDRP(last.ret, VOIDP))
    IN  (s % BS = 0) /\ (s >= last.arg + 2 * TYPE_SIZE)

\* C8 (locator completeness): under each policy and in every reachable state,
\* the locator returns NULL for an adjusted size only if the block sequence has
\* no FREE block of at least that size.
C8_LocatorComplete ==
  Running =>
    \A n \in Sizes \ {0} :
      (Locate(mem, Adjust(n)).kind = "null") => ~FitExists(Adjust(n))

\* C9 (locator soundness): under each policy and in every reachable state, a
\* non-NULL result of the locator is the payload address (header + 8) of a block
\* of the block sequence that is FREE and has at least the requested size; it
\* is neither of the two sentinels.
C9_LocatorSound ==
  Running =>
    \A n \in Sizes \ {0} :
      LET loc == Locate(mem, Adjust(n))
          h == HDRP(loc.bp, VOIDP)
      IN  (loc.kind = "ptr") =>
            /\ \E i \in 1..Len(Walk) : Walk[i] = h
            /\ GET_STATUS(mem, h) = FREE
            /\ GET_SIZE(mem, h) >= Adjust(n)
            /\ h # PREV_PTR(heap_start, VOIDP)
            /\ h # heap_end

\* C10 (termination): no call of the interface runs forever; in particular no
\* scan loop of a locator stays on a block of size 0 below heap_end.
C10_Terminates == pc # "hang"

\* the FREE blocks of the block sequence that have at least size bytes
FitsIn(w, size) ==
  {w[i] : i \in {j \in 1..Len(w) :
     (GET_STATUS(mem, w[j]) = FREE) /\ (GET_SIZE(mem, w[j]) >= size)}}

FreeFits(size) == FitsIn(Walk, size)

\* C11 (best-fit selection): whenever bf_get_free_block(size) returns a block,
\* no FREE block of at least size bytes is strictly smaller than it, and among
\* the FREE blocks of that smallest size it is the one at the lowest address.
C11_BestFit ==
  Running =>
    \A size \in BfRequests : \A loc \in {bf_get_free_block(mem, size)} :
      (loc.kind = "ptr") =>
        \A fits \in {FreeFits(size)} : \A h \in {HDRP(loc.bp, VOIDP)} :
          /\ h \in fits
          /\ \A g \in fits :
                \/ GET_SIZE(mem, g) > GET_SIZE(mem, h)
                \/ (GET_SIZE(mem, g) = GET_SIZE(mem, h)) /\ (g >= h)

\* best fit, asked for 50 bytes, returns a FREE block of 64 bytes while a FREE
\* block of 96 bytes lies before it and a larger one behind it
C11_Witness ==
  /\ Running
  /\ get_free_block = "bf"
  /\ \E loc \in {bf_get_free_block(mem, 50)} : \E fits \in {FreeFits(50)} :
       \E h \in {HDRP(loc.bp, VOIDP)} :
         /\ loc.kind = "ptr"
         /\ GET_SIZE(mem, h) = 64
         /\ \E g \in fits : (g < h) /\ (GET_SIZE(mem, g) = 96)
         /\ \E g \in fits : (g < h) /\ (GET_SIZE(mem, g) > GET_SIZE(mem, h))
         /\ \E g \in fits : (g > h) /\ (GET_SIZE(mem, g) > GET_SIZE(mem, h))

\* mm_init(FirstFit) and two mm_malloc(40) are the calls made so far
TwoOfForty ==
  /\ Running
  /\ get_free_block = "ff"
  /\ nops = 3
  /\ released = {}
  /\ Cardinality(DOMAIN live) = 2
  /\ \A p \in DOMAIN live : live[p] = 40

\* C12 (first-fit split): after mm_init(FirstFit) and two mm_malloc(40) the two
\* pointers are the payloads of two blocks of size 64 that lie one after the
\* other from heap_start on and do not overlap, followed by exactly one FREE
\* block of the initial free size minus 128 that ends at heap_end; the heap has
\* not grown.
C12_FirstFitSplit ==
  TwoOfForty =>
    /\ DOMAIN live = {heap_start + TYPE_SIZE, heap_start + 64 + TYPE_SIZE}
    /\ Walk = << heap_start, heap_start + 64, heap_start + 128 >>
    /\ GET(mem, heap_start) = PACK(64, ALLOC)
    /\ GET(mem, heap_start + 64) = PACK(64, ALLOC)
    /\ GET(mem, heap_start + 128) = PACK(HEAP_SIZE - 128, FREE)
    /\ Coherent(mem)
    /\ prov.brk = prov.start + CHUNKSIZE
    /\ heap_end = ((prov.brk - 1) \div BS) * BS
    /\ heap_start = ((prov.start + BS) \div BS) * BS

\* the second mm_malloc(40) under first fit has just returned
C12_Witness == TwoOfForty /\ (last.op = "malloc") /\ (last.arg = 40) /\ (last.path = "found")

\* C13 (zero-byte request): mm_malloc(0) on the initialized allocator returns
\* NULL and leaves every heap word, heap_start, heap_end, the break of the
\* provider and the next-fit cursor unchanged.
C13_ZeroRequest ==
  [][ (mm_initialized = 1 /\ nops' = nops + 1 /\ last'.op = "malloc" /\ last'.arg = 0)
      => ( /\ pc' = "run"
           /\ last'.ret = NULL
           /\ mem' = mem
           /\ heap_start' = heap_start
           /\ heap_end' = heap_end
           /\ prov' = prov
           /\ ds_heap_brk' = ds_heap_brk
           /\ nf_ptr' = nf_ptr
           /\ live' = live ) ]_vars

\* mm_malloc(0) has returned on a heap that holds an allocation and a set cursor
C13_Witness ==
  /\ Running
  /\ last.op = "malloc"
  /\ last.arg = 0
  /\ last.path = "zero"
  /\ nf_ptr # NULL
  /\ live # << >>

\* the provider cannot move the break by the xsize bytes that mm_malloc(size) asks for
GrowFails(p, size) ==
  \A ext \in DsExtents(MAX(Adjust(size), CHUNKSIZE)) :
    ds_sbrk(p, MAX(Adjust(size), CHUNKSIZE), ext).ret = FAILED

\* C14: growth failure is fatal.  A call of mm_malloc that finds no free block
\* while ds_sbrk(xsize) fails ends in PANIC, has written no word and returns no
\* pointer; a call of mm_init that passes the sanity checks while
\* ds_sbrk(CHUNKSIZE) fails ends in PANIC.
C14_GrowthFailureFatal ==
  [][/\ ( /\ pc = "run" /\ mm_initialized = 1
          /\ nops' = nops + 1 /\ last'.op = "malloc" /\ last'.arg # 0
          /\ Locate(mem, Adjust(last'.arg)).kind = "null"
          /\ GrowFails(prov, last'.arg) )
        => (pc' = "panic" /\ mem' = mem /\ last'.ret = NULL)
     /\ ( /\ pc = "run"
          /\ nops' = nops + 1 /\ last'.op = "init" /\ last'.arg \in {"ff", "nf", "bf"}
          /\ ~SanityFails(prov)
          /\ ds_sbrk(prov, CHUNKSIZE, CHUNKSIZE).ret = FAILED )
        => (pc' = "panic")
    ]_vars

\* C15: initialization preconditions.  mm_init ends in PANIC when the data segment
\* is not set up, is not empty (start # break) or reports page size 0, and when
\* the memory manager is initialized already; such a call changes no heap word
\* and leaves heap_start and heap_end in place.
C15_InitPreconditions ==
  [][( /\ pc = "run" /\ nops' = nops + 1 /\ last'.op = "init"
       /\ (SanityFails(prov) \/ mm_initialized = 1) )
     => ( /\ pc' = "panic" /\ mem' = mem
          /\ heap_start' = heap_start /\ heap_end' = heap_end )
    ]_vars

\* C16: use before initialization is fatal.  A call of mm_malloc, mm_calloc or
\* mm_free made while mm_initialized is 0 ends in abort (failed assert) and leaves
\* every heap word and every variable of the memory manager as it was.
C16_UseBeforeInit ==
  [][( /\ pc = "run" /\ mm_initialized = 0
       /\ nops' = nops + 1 /\ last'.op \in {"malloc", "calloc", "free"} )
     => ( /\ pc' = "abort" /\ mem' = mem
          /\ UNCHANGED << mm_initialized, get_free_block, ds_heap_start, ds_heap_brk,
                          heap_start, heap_end, nf_ptr, prov >> )
    ]_vars

\* mm_free was called before mm_init and the process was aborted
C16_Witness ==
  (last.op = "free") /\ (pc = "abort") /\ (mm_initialized = 0) /\ (mem = << >>)

\* C17: the consistency checker never terminates the process.  Every call of
\* mm_check, whatever the state it is made in, returns to its caller.
C17_CheckNeverFatal ==
  [][(pc = "run" /\ nops' = nops + 1 /\ last'.op = "check") => (pc' = "run")]_vars

\* C18: diagnostics have no effect on allocation.  A call of mm_check or of
\* mm_setloglevel changes no heap word and leaves heap_start, heap_end, the
\* policy, the next-fit cursor, the initialization flag and the data segment
\* as they were.
C18_DiagnosticsFrame ==
  [][(pc = "run" /\ nops' = nops + 1 /\ last'.op \in {"check", "setloglevel"})
     => UNCHANGED << mem, heap_start, heap_end, get_free_block, nf_ptr, mm_initialized,
                     ds_heap_start, ds_heap_brk, prov >>
    ]_vars

\* mm_check has returned on a heap with a block in use, under next fit with its
\* cursor set, after the log level was changed
C18_Witness ==
  /\ last.op = "check" /\ pc = "run"
  /\ mm_loglevel # 0
  /\ nf_ptr # NULL
  /\ DOMAIN live # {}

\* the two sentinel words of heap m: the word before heap_start, the word at heap_end
SentinelsIn(m, hs, he) ==
  (GET(m, PREV_PTR(hs, VOIDP)) = PACK(0, ALLOC)) /\ (GET(m, he) = PACK(0, ALLOC))

\* C19: sentinels are permanent.  Once mm_init has set mm_initialized, the word
\* before heap_start and the word at the current heap_end encode size 0 and
\* status ALLOC in every state.
C19_Sentinels == (mm_initialized = 1) => SentinelsIn(mem, heap_start, heap_end)

\* the n bytes at p are zero in heap m (little endian; the words of the model
\* are below 2^31)
ZeroBytes(m, p, n) ==
  /\ \A i \in 0..(n \div TYPE_SIZE - 1) : GET(m, p + TYPE_SIZE * i) = 0
  /\ (n % TYPE_SIZE # 0) =>
       LET v == GET(m, p + TYPE_SIZE * (n \div TYPE_SIZE)) IN
       IF n % TYPE_SIZE >= 4 THEN v = 0 ELSE v % Pow2(8 * (n % TYPE_SIZE)) = 0

\* C20: zeroing allocation.  When mm_calloc(count, elem_size) returns a pointer,
\* the count * elem_size bytes at that pointer lie between the header and the
\* footer of the returned block and are zero, and every word outside them is as
\* the underlying mm_malloc of count * elem_size bytes leaves it; when it returns
\* NULL, no heap word and no variable of the memory manager has changed.
C20_CallocZeroes ==
  [][( /\ pc = "run" /\ mm_initialized = 1
       /\ nops' = nops + 1 /\ last'.op = "calloc" /\ pc' = "run" )
     => LET n  == last'.arg[1] * last'.arg[2]
            bp == last'.ret
        IN  IF bp = NULL
            THEN UNCHANGED << mem, heap_start, heap_end, nf_ptr, ds_heap_brk, prov, live >>
            ELSE /\ n <= GET_SIZE(mem', HDRP(bp, VOIDP)) - 2 * TYPE_SIZE
                 /\ ZeroBytes(mem', bp, n)
                 /\ \E ext \in DsExtents(MAX(Adjust(SizeT(n)), CHUNKSIZE)) :
                      \A a \in DOMAIN mem' \ Bytes(bp, n) :
                        mem'[a] = GET(Malloc(SizeT(n), ext).mem, a)
    ]_vars

\* the byte count that the call recorded in c passes to mm_malloc
Requested(c) == IF c.op = "calloc" THEN SizeT(c.arg[1] * c.arg[2]) ELSE c.arg

\* C21: the heap only grows.  Once the memory manager is initialized, no step
\* changes heap_start or lowers heap_end; heap_end changes only in a call of
\* mm_malloc (directly or from mm_calloc) whose locator found no block; and
\* mm_free leaves heap_start, heap_end and the break where they were.
C21_HeapOnlyGrows ==
  [][(mm_initialized = 1) =>
       /\ heap_start' = heap_start
       /\ heap_end' >= heap_end
       /\ (heap_end' # heap_end) =>
            /\ nops' = nops + 1
            /\ last'.op \in {"malloc", "calloc"}
            /\ Requested(last') # 0
            /\ Locate(mem, Adjust(Requested(last'))).kind = "null"
       /\ (last'.op = "free" /\ nops' = nops + 1) =>
            UNCHANGED << heap_start, heap_end, ds_heap_brk, prov >>
    ]_vars

\* mm_malloc has grown the heap after a block was released
C21_Witness ==
  /\ pc = "run" /\ last.op = "malloc" /\ last.path = "grow"
  /\ heap_end - heap_start > CHUNKSIZE
  /\ released # {}

\* block i of the block sequence w of heap m is FREE (a sentinel lies outside w)
IsFreeAt(m, w, i) == (i \in 1..Len(w)) /\ (GET_STATUS(m, w[i]) = FREE)

\* the size that block i contributes to a merge: its size if FREE, else 0
MergeSize(m, w, i) == IF IsFreeAt(m, w, i) THEN GET_SIZE(m, w[i]) ELSE 0

\* the header and the footer of the block at header h of heap m are the same in m2
SameTags(m, m2, h) ==
  /\ GET(m2, h) = GET(m, h)
  /\ GET(m2, h + GET_SIZE(m, h) - TYPE_SIZE) = GET(m, h + GET_SIZE(m, h) - TYPE_SIZE)

\* mm_free(p) is called on a live pointer in a coherent heap and returns
FreeReturns(p) ==
  /\ Running /\ Coherent(mem)
  /\ p \in DOMAIN live
  /\ last'.op = "free" /\ last'.arg = p /\ nops' = nops + 1
  /\ pc' = "run"

\* C22: release merges with free neighbours.  When mm_free(p) returns, the
\* released block, its predecessor if FREE and its successor if FREE are one
\* FREE block: the header at the lowest address of the span and the footer at
\* its highest word encode the sum of the sizes, and every block outside the
\* span keeps its tags.
C22_ReleaseMerges ==
  [][ \A p \in DOMAIN live : FreeReturns(p) =>
        \A w \in {Walk} : \A i \in 1..Len(w) : (w[i] = HDRP(p, VOIDP)) =>
          LET ps    == MergeSize(mem, w, i - 1)
              ns    == MergeSize(mem, w, i + 1)
              lo    == w[i] - ps
              total == ps + GET_SIZE(mem, w[i]) + ns
          IN  /\ GET(mem', lo) = PACK(total, FREE)
              /\ GET(mem', lo + total - TYPE_SIZE) = PACK(total, FREE)
              /\ \A j \in 1..Len(w) :
                   ((j < i - 1) \/ (j > i + 1) \/ (j # i /\ ~IsFreeAt(mem, w, j)))
                     => SameTags(mem, mem', w[j])
    ]_vars

\* C23: release at the heap boundaries.  When mm_free(p) returns and the
\* released block is the first block of the heap, its predecessor was taken as
\* ALLOCATED (case 1 or 2 of the coalescing); when it is the last block, its
\* successor was taken as ALLOCATED (case 1 or 3); and the size encoded for the
\* released block is its own size plus the sizes of its FREE neighbour blocks.
C23_ReleaseAtBoundaries ==
  [][ \A p \in DOMAIN live : FreeReturns(p) =>
        \A w \in {Walk} : \A i \in 1..Len(w) :
          ((w[i] = HDRP(p, VOIDP)) /\ (i = 1 \/ i = Len(w))) =>
            LET ps    == MergeSize(mem, w, i - 1)
                ns    == MergeSize(mem, w, i + 1)
            IN  /\ (i = 1) => (last'.ret \in {1, 2})
                /\ (i = Len(w)) => (last'.ret \in {1, 3})
                /\ GET_SIZE(mem', w[i] - ps) = ps + GET_SIZE(mem, w[i]) + ns
    ]_vars

\* C24: release without merge.  When mm_free(p) returns and neither neighbour
\* of the released block is a FREE block, the header and the footer of the
\* block encode (same size, FREE), every other word is as before, and
\* heap_start, heap_end and the next-fit cursor are unchanged.
C24_ReleaseNoMerge ==
  [][ \A p \in DOMAIN live : FreeReturns(p) =>
        \A w \in {Walk} : \A i \in 1..Len(w) :
          ((w[i] = HDRP(p, VOIDP)) /\ ~IsFreeAt(mem, w, i - 1) /\ ~IsFreeAt(mem, w, i + 1)) =>
            LET size == GET_SIZE(mem, w[i])
                ftr  == w[i] + size - TYPE_SIZE
            IN  /\ GET(mem', w[i]) = PACK(size, FREE)
                /\ GET(mem', ftr) = PACK(size, FREE)
                /\ \A a \in (DOMAIN mem \cup DOMAIN mem') \ {w[i], ftr} :
                     GET(mem', a) = GET(mem, a)
                /\ UNCHANGED << heap_start, heap_end, nf_ptr >>
    ]_vars

\* C25: found-path allocation conserves the block.  When mm_malloc(n) returns
\* after its locator gave a FREE block of size S >= a, a the adjusted size, the
\* block at that address is ALLOCATED with size a in header and footer; if
\* S > a it is followed by a FREE block of size S - a, a positive multiple of
\* 32, whose footer is the last word of the original block; and no word
\* outside the original block is changed, nor, if S = a, any word but the two tags.
C25_FoundPath ==
  [][( /\ Running /\ nops' = nops + 1 /\ last'.op = "malloc" /\ last'.arg # 0
       /\ pc' = "run" ) =>
       \A a \in {Adjust(last'.arg)} : \A loc \in {Locate(mem, a)} :
         LET h == HDRP(loc.bp, VOIDP)
             S == GET_SIZE(mem, h)
         IN  ((loc.kind = "ptr") /\ (GET_STATUS(mem, h) = FREE) /\ (S >= a)) =>
               /\ last'.ret = loc.bp
               /\ GET(mem', h) = PACK(a, ALLOC)
               /\ GET(mem', h + a - TYPE_SIZE) = PACK(a, ALLOC)
               /\ (S > a) =>
                    /\ GET(mem', h + a) = PACK(S - a, FREE)
                    /\ GET(mem', h + S - TYPE_SIZE) = PACK(S - a, FREE)
                    /\ (S - a) % BS = 0
               /\ \A q \in (DOMAIN mem \cup DOMAIN mem') :
                    (q < h \/ q >= h + S \/ (S = a /\ q \notin {h, h + a - TYPE_SIZE}))
                      => GET(mem', q) = GET(mem, q)
               /\ UNCHANGED << heap_start, heap_end, ds_heap_brk, prov >>
    ]_vars

\* mm_malloc has taken a FREE block whole: the block it returned is the only
\* block of a heap that was not grown
C25_Witness ==
  /\ pc = "run" /\ last.op = "malloc" /\ last.path = "found"
  /\ last.ret = NEXT_PTR(heap_start, VOIDP)
  /\ GET(mem, heap_start) = PACK(HEAP_SIZE, ALLOC)
  /\ GET(mem, PREV_PTR(heap_end, VOIDP)) = PACK(HEAP_SIZE, ALLOC)

\* C26: growth-path allocation.  When mm_malloc(n) returns after its locator
\* found no block, the break has moved by at least xsize = max(adjusted size,
\* 4096) bytes, the word at the new heap_end is the (0, ALLOC) sentinel, and the
\* returned block has its header (xsize, ALLOC) at the previous heap_end and its
\* footer (xsize, ALLOC) in the word before the new heap_end: heap_end has
\* moved by xsize.
C26_GrowthPath ==
  [][( /\ Running /\ nops' = nops + 1 /\ last'.op = "malloc" /\ last'.arg # 0
       /\ pc' = "run"
       /\ Locate(mem, Adjust(last'.arg)).kind = "null" ) =>
       LET xsize == MAX(Adjust(last'.arg), CHUNKSIZE) IN
       /\ prov'.brk >= prov.brk + xsize
       /\ GET(mem', heap_end') = PACK(0, ALLOC)
       /\ last'.ret = NEXT_PTR(heap_end, VOIDP)
       /\ GET(mem', heap_end) = PACK(xsize, ALLOC)
       /\ GET(mem', PREV_PTR(heap_end', VOIDP)) = PACK(xsize, ALLOC)
       /\ heap_end' = heap_end + xsize
    ]_vars

\* mm_init has returned to its caller
InitReturned == (last.op = "init") /\ (pc = "run") /\ (mm_initialized = 1)

\* C27: initialization postcondition.  When mm_init has returned, heap_start
\* and heap_end are multiples of 32 with heap_start < heap_end, the two sentinel
\* words lie inside the data segment and encode (0, ALLOC), and the heap is one
\* FREE block: header at heap_start and footer at heap_end - 8, both of size
\* heap_end - heap_start.
C27_InitPostcondition ==
  InitReturned =>
    /\ heap_start % BS = 0
    /\ heap_end % BS = 0
    /\ heap_start < heap_end
    /\ InRegion(prov, PREV_PTR(heap_start, VOIDP))
    /\ InRegion(prov, heap_end)
    /\ SentinelsIn(mem, heap_start, heap_end)
    /\ GET(mem, heap_start) = PACK(HEAP_SIZE, FREE)
    /\ GET(mem, PREV_PTR(heap_end, VOIDP)) = PACK(HEAP_SIZE, FREE)
    /\ Walk = << heap_start >>

\* C28: best fit on a fresh heap.  The first mm_malloc(n) after mm_init(bf)
\* whose adjusted size is at most the size of the initial FREE block returns
\* the payload of that block and does not grow the heap.
C28_BestFitFreshHeap ==
  [][( /\ InitReturned /\ get_free_block = "bf" /\ heap_start < heap_end
       /\ nops' = nops + 1 /\ last'.op = "malloc" /\ last'.arg # 0
       /\ Adjust(last'.arg) <= GET_SIZE(mem, heap_start) ) =>
       /\ bf_get_free_block(mem, Adjust(last'.arg)).bp = NEXT_PTR(heap_start, VOIDP)
       /\ pc' = "run"
       /\ last'.ret = NEXT_PTR(heap_start, VOIDP)
       /\ UNCHANGED << heap_end, ds_heap_brk, prov >>
    ]_vars

\* the lowest address of a nonempty set of addresses
Lowest(S) == CHOOSE h \in S : \A g \in S : h <= g

\* C29: first-fit selection.  In every state of the running memory manager
\* ff_get_free_block(size) returns the payload pointer of the FREE block of at
\* least size bytes that has the lowest address in the block sequence, returns
\* NULL if there is no such block, and leaves the next-fit cursor alone.
C29_FirstFit ==
  Running =>
    \A size \in FfRequests : \A loc \in {ff_get_free_block(mem, size)} :
      \A fits \in {FreeFits(size)} :
        /\ (fits # {}) => (loc.kind = "ptr" /\ loc.bp = NEXT_PTR(Lowest(fits), VOIDP))
        /\ (fits = {}) => (loc.kind = "null" /\ loc.bp = NULL)
        /\ loc.nf = nf_ptr

\* the headers that a scan by header sizes meets from header p on
ScanPath(m, p) == CheckWalk(m, p, 0, << >>)

\* C30: next-fit cursor protocol.  A call of mm_malloc under next fit scans
\* from the cursor, or from heap_start if the cursor is NULL, towards heap_end.
\* If a FREE block of the adjusted size lies on that way, the first one is
\* returned and the cursor is left at its header; if the scan reaches heap_end
\* without one, the cursor becomes NULL and the locator reports not-found (the
\* heap is grown), whatever lies before the place the scan started from.
C30_NextFitCursor ==
  [][( /\ Running /\ get_free_block = "nf"
       /\ nops' = nops + 1 /\ last'.op = "malloc" /\ last'.arg # 0
       /\ pc' = "run" ) =>
       \A a \in {Adjust(last'.arg)} :
       \A sp \in {ScanPath(mem, IF nf_ptr = NULL THEN heap_start ELSE nf_ptr)} :
       \A fits \in {FitsIn(sp.blocks, a)} :
         /\ (fits # {}) =>
              /\ last'.path = "found"
              /\ last'.ret = NEXT_PTR(Lowest(fits), VOIDP)
              /\ nf_ptr' = Lowest(fits)
         /\ (fits = {} /\ sp.p >= heap_end) =>
              /\ last'.path = "grow"
              /\ nf_ptr' = NULL
    ]_vars

\* next fit has reported not-found and the cursor is NULL although a FREE block
\* of the adjusted size lies in the heap, below the block that was returned
C30_Witness ==
  /\ Running /\ get_free_block = "nf"
  /\ last.op = "malloc" /\ last.path = "grow"
  /\ nf_ptr = NULL
  /\ \E h \in FreeFits(Adjust(last.arg)) : h < last.ret

\* C31: block geometry.  In every reachable state every block of the block
\* sequence has a header address that is a multiple of 32 and an encoded size
\* that is a positive multiple of 32.
C31_BlockGeometry ==
  Running =>
    \A i \in 1..Len(Walk) :
      /\ Walk[i] % BS = 0
      /\ GET_SIZE(mem, Walk[i]) > 0
      /\ GET_SIZE(mem, Walk[i]) % BS = 0

\* a is the least multiple of 32 that is at least n + 16
LeastBlock(a, n) == (a % BS = 0) /\ (a >= n + 2 * TYPE_SIZE) /\ (a - BS < n + 2 * TYPE_SIZE)

\* C32: adjusted size.  For every request n >= 1 whose rounded size is a value
\* of size_t, the adjusted block size that mm_malloc computes is the least
\* multiple of 32 that is at least n + 16, and so at least 32; a block that
\* mm_malloc(n) takes from the heap has that size in its header.
C32_AdjustedSize ==
  /\ (nops = 0) => \A n \in 1..AdjMax : LeastBlock(Adjust(n), n) /\ Adjust(n) >= BS
  /\ (pc = "run" /\ last.op = "malloc" /\ last.arg \in 1..AdjMax) =>
       /\ LeastBlock(Adjust(last.arg), last.arg)
       /\ Adjust(last.arg) >= BS
       /\ (last.path = "found") =>
            LeastBlock(GET_SIZE(mem, HDRP(last.ret, VOIDP)), last.arg)

\* mm_malloc(17) has taken a block of 64 bytes from the heap
C32_Witness ==
  /\ pc = "run" /\ last.op = "malloc" /\ last.arg = 17 /\ last.path = "found"
  /\ GET(mem, HDRP(last.ret, VOIDP)) = PACK(2 * BS, ALLOC)

\* the footer of the block at header p differs from the header in size or status
Mismatch(m, p) ==
  \/ GET_SIZE(m, p + GET_SIZE(m, p) - TYPE_SIZE) # GET_SIZE(m, p)
  \/ GET_STATUS(m, p + GET_SIZE(m, p) - TYPE_SIZE) # GET_STATUS(m, p)

\* the chain of headers from p ends exactly at heap_end, through blocks of
\* positive size whose footers agree with their headers
RECURSIVE ChainOK(_, _)
ChainOK(m, p) ==
  IF p >= heap_end THEN p = heap_end
  ELSE (GET_SIZE(m, p) > 0) /\ ~Mismatch(m, p) /\ ChainOK(m, p + GET_SIZE(m, p))

\* the headers from p on, up to heap_end or up to and including a block of size 0
RECURSIVE Visited(_, _)
Visited(m, p) ==
  IF p >= heap_end THEN {}
  ELSE IF GET_SIZE(m, p) = 0 THEN {p}
  ELSE {p} \cup Visited(m, p + GET_SIZE(m, p))

\* C33: checker verdict.  A mm_check that returns reports the block structure
\* as coherent if and only if the walk from heap_start by header sizes ends
\* exactly at heap_end and every block visited has a footer equal in size and
\* status to its header; it counts every mismatch of the blocks it visits, a
\* mismatch does not end the walk, and a block of size 0 does.
C33_CheckVerdict ==
  (Running /\ last.op = "check") =>
    /\ (last.path = "coherent") <=> ChainOK(mem, heap_start)
    /\ last.ret = Cardinality({p \in Visited(mem, heap_start) : Mismatch(mem, p)})

\* mm_check has counted a mismatch in a walk that went on to heap_end
C33_Witness ==
  /\ Running /\ last.op = "check" /\ last.path = "incoherent"
  /\ last.ret = 1
  /\ heap_end \in {p + GET_SIZE(mem, p) : p \in Visited(mem, heap_start)}
  /\ \E p \in Visited(mem, heap_start) : Mismatch(mem, p) /\ p + GET_SIZE(mem, p) < heap_end

\* C34: next-fit cursor validity.  Under next fit the cursor nf_ptr is, in
\* every reachable state, NULL or the header of a block of the block sequence,
\* and a block that next fit returns is a block of the block sequence, never
\* a region inside a larger block.
C34_CursorValid ==
  (Running /\ get_free_block = "nf") =>
    /\ (nf_ptr = NULL) \/ (nf_ptr \in Visited(mem, heap_start))
    /\ \A n \in NfSizes : \A loc \in {nf_get_free_block(mem, Adjust(n))} :
         (loc.kind = "ptr") => (HDRP(loc.bp, VOIDP) \in Visited(mem, heap_start))

\* the block of the live pointer p: its header and the first byte after it
BlockLo(p) == HDRP(p, VOIDP)
BlockHi(p) == HDRP(p, VOIDP) + GET_SIZE(mem, HDRP(p, VOIDP))

\* C35: live allocations are disjoint and inside the heap.  In every reachable
\* state the extent [header, header + size) of every pointer returned by
\* mm_malloc / mm_calloc and not yet released lies within [heap_start,
\* heap_end), and the extents of two such pointers do not intersect.
C35_LiveDisjoint ==
  Running =>
    /\ \A p \in DOMAIN live : (heap_start <= BlockLo(p)) /\ (BlockHi(p) <= heap_end)
    /\ \A p, q \in DOMAIN live :
         (p < q) => (BlockHi(p) <= BlockLo(q)) \/ (BlockHi(q) <= BlockLo(p))

\* the tags that precede and follow the block of p: the header of the block
\* before it (the initial sentinel for the first block) and the header of the
\* block after it (the end sentinel for the last block)
PrevTag(p) ==
  IF HDRP(p, VOIDP) = heap_start THEN PREV_PTR(heap_start, VOIDP)
  ELSE HDRP(p, VOIDP) - GET_SIZE(mem, PREV_PTR(HDRP(p, VOIDP), VOIDP))
NextTag(p) == HDRP(p, VOIDP) + GET_SIZE(mem, HDRP(p, VOIDP))

\* the case of mm_free that the status of the two neighbours asks for
CaseOf(prev_alloc, next_alloc) ==
  IF prev_alloc # 0 /\ next_alloc # 0 THEN 1
  ELSE IF prev_alloc # 0 THEN 2
  ELSE IF next_alloc # 0 THEN 3
  ELSE 4

\* C36: release reads the neighbours' status from boundary tags only.  When
\* mm_free(p) returns for a live p in a coherent heap, the case it has taken is
\* the one given by the status in the header of the block before p (the
\* initial sentinel if p is the first block) and in the header of the block
\* after p (the end sentinel if p is the last block).
C36_NeighbourStatus ==
  [][ \A p \in DOMAIN live :
        FreeReturns(p) =>
          last'.ret = CaseOf(GET_STATUS(mem, PrevTag(p)), GET_STATUS(mem, NextTag(p)))
    ]_vars

\* the words whose value differs between the heaps m and m2
Changed(m, m2) == {q \in DOMAIN m \cup DOMAIN m2 : GET(m, q) # GET(m2, q)}

\* q is a payload word of the block of the live pointer p
InPayload(q, p) == (BlockLo(p) < q) /\ (q < BlockHi(p) - TYPE_SIZE)

\* C37: user data is preserved.  No call of mm_malloc or mm_free that returns
\* changes a payload word of a block that is live and ALLOCATED before the call
\* and after it.
C37_UserData ==
  [][ ( /\ Running /\ pc' = "run"
        /\ nops' = nops + 1
        /\ last'.op \in {"malloc", "free"} ) =>
        \A p \in DOMAIN live \cap DOMAIN live' :
          ( /\ GET_STATUS(mem, HDRP(p, VOIDP)) = ALLOC
            /\ GET_STATUS(mem', HDRP(p, VOIDP)) = ALLOC ) =>
            \A q \in Changed(mem, mem') : ~InPayload(q, p)
    ]_vars

\* the blocks of the heap m: the triples (address, size, status) of its walk
Triples(m) ==
  LET w == Check(m).blocks
  IN  [i \in 1..Len(w) |-> << w[i], GET_SIZE(m, w[i]), GET_STATUS(m, w[i]) >>]

\* C38: allocate-release round trip.  In a coherent heap in which mm_malloc(n)
\* is served without growing the heap, mm_free of the returned pointer right
\* after it returns and leaves the sequence of (address, size, status) of all
\* blocks as it was before the mm_malloc.
C38_RoundTrip ==
  (Running /\ Coherent(mem)) =>
    \A n \in Sizes \ {0} : \A r \in {Malloc(n, CHUNKSIZE)} :
      (r.kind = "found") =>
        \A f \in {Free(r.mem, r.bp)} :
          (f.kind = "ok") /\ (Triples(f.mem) = Triples(mem))

\* every word of the set acc lies inside the data segment of provider state p
AllInRegion(p, acc) == \A a \in acc : InRegion(p, a)

\* C39: accesses stay inside the provider region.  For a data segment whose
\* start and break are word-aligned, every heap word that mm_init, mm_malloc
\* and mm_free read or write lies within [ds_heap_start, ds_heap_brk): the
\* sentinels and tags written by mm_init, the tags and the sentinel written by
\* mm_malloc, and the tags of the block and of its neighbours that mm_free
\* reads and writes, for the first and the last block too.
C39_AccessInRegion ==
  [][ ( /\ pc = "run" /\ nops' = nops + 1
        /\ prov.start % TYPE_SIZE = 0 /\ prov.brk % TYPE_SIZE = 0 ) =>
        /\ (last'.op = "init" /\ mm_initialized' = 1 /\ mm_initialized = 0) =>
             AllInRegion(prov', {PREV_PTR(heap_start', VOIDP), heap_start',
                                 PREV_PTR(heap_end', VOIDP), heap_end'})
        /\ (last'.op = "malloc" /\ mm_initialized = 1) =>
             \A ext \in DsExtents(MAX(Adjust(last'.arg), CHUNKSIZE)) :
               \A r \in {Malloc(last'.arg, ext)} :
                 (r.prov = prov') => AllInRegion(r.prov, r.acc)
        /\ (last'.op = "free" /\ mm_initialized = 1) =>
             AllInRegion(prov, Free(mem, last'.arg).acc)
    ]_vars

\* C40: no arithmetic wrap-around.  For every request n >= 1 the adjusted size
\* that mm_malloc computes in size_t is at least n + 16; the byte count that
\* mm_calloc passes on is the product count * elem_size; and a block that
\* mm_malloc or mm_calloc returns is not smaller than the request.
C40_NoWrap ==
  (mm_initialized = 1) =>
    /\ (last.op = "malloc" /\ last.arg >= 1) =>
         Adjust(last.arg) >= last.arg + 2 * TYPE_SIZE
    /\ (last.op = "calloc") =>
         Requested(last) = last.arg[1] * last.arg[2]
    /\ (pc = "run" /\ last.op = "malloc" /\ last.ret # NULL) =>
         GET_SIZE(mem, HDRP(last.ret, VOIDP)) >= last.arg + 2 * TYPE_SIZE
    /\ (pc = "run" /\ last.op = "calloc" /\ last.ret # NULL) =>
         GET_SIZE(mem, HDRP(last.ret, VOIDP)) >= last.arg[1] * last.arg[2] + 2 * TYPE_SIZE

====
